---- MODULE Spec2Model ----
(***************************************************************************)
(* The four retriever components of haystack-core-integrations:            *)
(*   OpenSearchBM25Retriever          (opensearch/bm25_retriever.py)       *)
(*   QdrantEmbeddingRetriever         (qdrant/retriever.py)                *)
(*   QdrantSparseEmbeddingRetriever   (qdrant/retriever.py)                *)
(*   QdrantHybridRetriever            (qdrant/retriever.py)                *)
(*                                                                         *)
(* Python values are modelled as follows.                                  *)
(*   - An object attribute, an argument or a dictionary entry is a "slot": *)
(*     the empty set is Python's None, {x} is the value x.                 *)
(*   - A dict is a function whose domain is its set of keys.               *)
(*   - A keyword-argument list is a function from the names that were      *)
(*     passed to their slots; a name that is not in the domain was not     *)
(*     passed.                                                             *)
(*   - A float is an integer (score thresholds 0, 1, .. stand for 0.0,     *)
(*     1.0, ..): the code only tests it for truthiness and forwards it.    *)
(***************************************************************************)
EXTENDS Integers, Sequences, FiniteSets, TLC

\* ------------------------------------------------------------------ bounds
\* Largest top_k a caller passes (0 is passed too: it is the falsy integer).
MaxTopK == 2
\* Largest score threshold a caller passes (0 stands for 0.0).
MaxThreshold == 1
\* Longest document sequence the store returns.
MaxDocs == 2
\* Arguments a caller gives over a retriever's life up to one run call: those
\* given to the constructor (a store other than the default one included) plus
\* the overrides given to the run call (filter_policy and the query do not
\* count).
MaxArgs == 2

\* ------------------------------------------------------- program constants
\* top_k: int = 10 in every constructor.
DefaultTopK == 10

\* ----------------------------------------------------------- Python values
None == {}
Some(x) == {x}
Val(slot) == CHOOSE x \in slot : TRUE

\* The empty dict {}.
EmptyDict == [k \in {} |-> ""]

\* bool(x) for the types the retrievers test.
TruthyBool(slot) == slot # None /\ Val(slot)
TruthyInt(slot) == slot # None /\ Val(slot) # 0
TruthyFloat(slot) == slot # None /\ Val(slot) # 0
TruthyDict(slot) == slot # None /\ DOMAIN Val(slot) # {}

\* Python's {**a, **b}: every key of both, b's value where both have the key.
DictUnion(a, b) ==
    [k \in (DOMAIN a) \cup (DOMAIN b) |-> IF k \in DOMAIN b THEN b[k] ELSE a[k]]

\* kwargs.get(name, default) as the interpreter binds a parameter.
Arg(kwargs, name, default) ==
    IF name \in DOMAIN kwargs THEN kwargs[name] ELSE default

\* d with d[key] = value (assignment into a dict, item added or replaced).
SetItem(d, key, value) ==
    [k \in (DOMAIN d) \cup {key} |-> IF k = key THEN value ELSE d[k]]

\* ------------------------------------------------------------ value domains
\* Filters are dicts from field names to values: {"lang": "en"}, ...
FieldNames == {"lang", "year"}
FieldValues(field) == IF field = "lang" THEN {"en", "de"} ELSE {"2020"}
Filters ==
    { f \in UNION { [S -> {"en", "de", "2020"}] : S \in SUBSET FieldNames } :
        \A k \in DOMAIN f : f[k] \in FieldValues(k) }

\* custom_query templates: the empty mapping and one with the $query placeholder.
CustomQueries == { EmptyDict, [k \in {"query"} |-> "$query"] }

Bools == { Some(TRUE), Some(FALSE) }

\* Document stores handed to the constructors: a class and a configuration.
OpenSearchDocumentStore == "OpenSearchDocumentStore"
QdrantDocumentStore == "QdrantDocumentStore"
StoreClasses == { OpenSearchDocumentStore, QdrantDocumentStore, "InMemoryDocumentStore" }
Stores == [ cls : StoreClasses, index : {"default", "docs"} ]

\* Mutant of IsInstance: the class is not looked at.
IsInstance_unchecked(slot, cls) == slot # None

\* isinstance(obj, cls) for a slot holding a store (None is an instance of nothing).
IsInstance(slot, cls) == slot # None /\ Val(slot).cls = cls

\* The stores' own serialization (external collaborators).
Store_to_dict(store) ==
    [ type |-> store.cls, init_parameters |-> [ index |-> store.index ] ]
Store_from_dict(cls, d) ==
    [ cls |-> cls, index |-> d.init_parameters.index ]

\* haystack.document_stores.types.FilterPolicy: an enum whose members carry the
\* string tokens "replace" and "merge"; a str and an enum member are different
\* Python values even with the same token.
PyStr(s) == [ py_type |-> "str", v |-> s ]
FilterPolicyMember(token) == [ py_type |-> "FilterPolicy", v |-> token ]
REPLACE == FilterPolicyMember("replace")
MERGE == FilterPolicyMember("merge")
IsFilterPolicy(x) == x.py_type = "FilterPolicy"
\* FilterPolicy.from_str raises ValueError on an unknown token.
FilterPolicy_from_str_raises(s) == s.v \notin {"replace", "merge"}
FilterPolicy_from_str(s) == FilterPolicyMember(s.v)
\* member.value
FilterPolicy_value(member) == PyStr(member.v)

\* apply_filter_policy(filter_policy, init_filters, runtime_filters):
\* REPLACE uses the runtime filters when given, else the init filters; MERGE
\* combines both field by field, the runtime value winning on a shared field.
apply_filter_policy(filter_policy, init_filters, runtime_filters) ==
    IF runtime_filters = None THEN init_filters
    ELSE IF filter_policy = MERGE
         THEN Some(DictUnion(IF init_filters = None THEN EmptyDict ELSE Val(init_filters),
                             Val(runtime_filters)))
         ELSE runtime_filters

\* ---------------------------------------------------------- the four classes
OpenSearchBM25Retriever == "OpenSearchBM25Retriever"
QdrantEmbeddingRetriever == "QdrantEmbeddingRetriever"
QdrantSparseEmbeddingRetriever == "QdrantSparseEmbeddingRetriever"
QdrantHybridRetriever == "QdrantHybridRetriever"
Classes ==
    { OpenSearchBM25Retriever, QdrantEmbeddingRetriever,
      QdrantSparseEmbeddingRetriever, QdrantHybridRetriever }
QdrantClasses == Classes \ { OpenSearchBM25Retriever }

\* The store class each retriever expects.
ExpectedStore(cls) ==
    IF cls = OpenSearchBM25Retriever THEN OpenSearchDocumentStore ELSE QdrantDocumentStore

\* Calling f(**kwargs) raises TypeError when a keyword is not a parameter of f
\* or a parameter without default is missing.
BindRaises(kwargs, params, required) ==
    ~(DOMAIN kwargs \subseteq params) \/ ~(required \subseteq DOMAIN kwargs)

\* What a constructor leaves behind: the exception it raised (None if none) and
\* the attributes assigned to self up to that point.
Constructed(raised, attrs) == [ raised |-> raised, attrs |-> attrs ]

\* self._filter_policy = filter_policy if isinstance(filter_policy, FilterPolicy)
\*                       else FilterPolicy.from_str(filter_policy)
PolicyRaises(filter_policy) ==
    ~IsFilterPolicy(Val(filter_policy)) /\ FilterPolicy_from_str_raises(Val(filter_policy))
PolicyOf(filter_policy) ==
    IF IsFilterPolicy(Val(filter_policy)) THEN filter_policy
    ELSE Some(FilterPolicy_from_str(Val(filter_policy)))

OpenSearchBM25Retriever_init_params ==
    { "document_store", "filters", "fuzziness", "top_k", "scale_score",
      "all_terms_must_match", "filter_policy", "custom_query", "raise_on_failure" }

OpenSearchBM25Retriever_init(kwargs) ==
    LET document_store == Arg(kwargs, "document_store", None)
        filters == Arg(kwargs, "filters", None)
        fuzziness == Arg(kwargs, "fuzziness", Some("AUTO"))
        top_k == Arg(kwargs, "top_k", Some(DefaultTopK))
        scale_score == Arg(kwargs, "scale_score", Some(FALSE))
        all_terms_must_match == Arg(kwargs, "all_terms_must_match", Some(FALSE))
        filter_policy == Arg(kwargs, "filter_policy", Some(REPLACE))
        custom_query == Arg(kwargs, "custom_query", None)
        raise_on_failure == Arg(kwargs, "raise_on_failure", Some(TRUE))
        upto_policy ==
            ("_document_store" :> document_store)
            @@ ("_filters" :> IF TruthyDict(filters) THEN filters ELSE Some(EmptyDict))
            @@ ("_fuzziness" :> fuzziness)
            @@ ("_top_k" :> top_k)
            @@ ("_scale_score" :> scale_score)
            @@ ("_all_terms_must_match" :> all_terms_must_match)
    IN  IF BindRaises(kwargs, OpenSearchBM25Retriever_init_params, {"document_store"})
        THEN Constructed(Some("TypeError"), EmptyDict)
        ELSE IF ~IsInstance(document_store, OpenSearchDocumentStore)
        THEN Constructed(Some("ValueError"), EmptyDict)
        ELSE IF PolicyRaises(filter_policy)
        THEN Constructed(Some("ValueError"), upto_policy)
        ELSE Constructed(None,
                 upto_policy
                 @@ ("_filter_policy" :> PolicyOf(filter_policy))
                 @@ ("_custom_query" :> custom_query)
                 @@ ("_raise_on_failure" :> raise_on_failure))

Qdrant_init_params ==
    { "document_store", "filters", "top_k", "scale_score", "return_embedding",
      "filter_policy", "score_threshold" }

QdrantEmbeddingRetriever_init(kwargs) ==
    LET document_store == Arg(kwargs, "document_store", None)
        filters == Arg(kwargs, "filters", None)
        top_k == Arg(kwargs, "top_k", Some(DefaultTopK))
        scale_score == Arg(kwargs, "scale_score", Some(FALSE))
        return_embedding == Arg(kwargs, "return_embedding", Some(FALSE))
        filter_policy == Arg(kwargs, "filter_policy", Some(REPLACE))
        score_threshold == Arg(kwargs, "score_threshold", None)
        upto_policy ==
            ("_document_store" :> document_store)
            @@ ("_filters" :> filters)
            @@ ("_top_k" :> top_k)
            @@ ("_scale_score" :> scale_score)
            @@ ("_return_embedding" :> return_embedding)
    IN  IF BindRaises(kwargs, Qdrant_init_params, {"document_store"})
        THEN Constructed(Some("TypeError"), EmptyDict)
        ELSE IF ~IsInstance(document_store, QdrantDocumentStore)
        THEN Constructed(Some("ValueError"), EmptyDict)
        ELSE IF PolicyRaises(filter_policy)
        THEN Constructed(Some("ValueError"), upto_policy)
        ELSE Constructed(None,
                 upto_policy
                 @@ ("_filter_policy" :> PolicyOf(filter_policy))
                 @@ ("_score_threshold" :> score_threshold))

QdrantSparseEmbeddingRetriever_init(kwargs) ==
    LET document_store == Arg(kwargs, "document_store", None)
        filters == Arg(kwargs, "filters", None)
        top_k == Arg(kwargs, "top_k", Some(DefaultTopK))
        scale_score == Arg(kwargs, "scale_score", Some(FALSE))
        return_embedding == Arg(kwargs, "return_embedding", Some(FALSE))
        filter_policy == Arg(kwargs, "filter_policy", Some(REPLACE))
        score_threshold == Arg(kwargs, "score_threshold", None)
        upto_policy ==
            ("_document_store" :> document_store)
            @@ ("_filters" :> filters)
            @@ ("_top_k" :> top_k)
            @@ ("_scale_score" :> scale_score)
            @@ ("_return_embedding" :> return_embedding)
    IN  IF BindRaises(kwargs, Qdrant_init_params, {"document_store"})
        THEN Constructed(Some("TypeError"), EmptyDict)
        ELSE IF ~IsInstance(document_store, QdrantDocumentStore)
        THEN Constructed(Some("ValueError"), EmptyDict)
        ELSE IF PolicyRaises(filter_policy)
        THEN Constructed(Some("ValueError"), upto_policy)
        ELSE Constructed(None,
                 upto_policy
                 @@ ("_filter_policy" :> PolicyOf(filter_policy))
                 @@ ("_score_threshold" :> score_threshold))

\* The hybrid retriever has no scale_score parameter.
QdrantHybridRetriever_init_params ==
    { "document_store", "filters", "top_k", "return_embedding", "filter_policy",
      "score_threshold" }

QdrantHybridRetriever_init(kwargs) ==
    LET document_store == Arg(kwargs, "document_store", None)
        filters == Arg(kwargs, "filters", None)
        top_k == Arg(kwargs, "top_k", Some(DefaultTopK))
        return_embedding == Arg(kwargs, "return_embedding", Some(FALSE))
        filter_policy == Arg(kwargs, "filter_policy", Some(REPLACE))
        score_threshold == Arg(kwargs, "score_threshold", None)
        upto_policy ==
            ("_document_store" :> document_store)
            @@ ("_filters" :> filters)
            @@ ("_top_k" :> top_k)
            @@ ("_return_embedding" :> return_embedding)
    IN  IF BindRaises(kwargs, QdrantHybridRetriever_init_params, {"document_store"})
        THEN Constructed(Some("TypeError"), EmptyDict)
        ELSE IF ~IsInstance(document_store, QdrantDocumentStore)
        THEN Constructed(Some("ValueError"), EmptyDict)
        ELSE IF PolicyRaises(filter_policy)
        THEN Constructed(Some("ValueError"), upto_policy)
        ELSE Constructed(None,
                 upto_policy
                 @@ ("_filter_policy" :> PolicyOf(filter_policy))
                 @@ ("_score_threshold" :> score_threshold))

\* cls(**kwargs)
InitOf(cls, kwargs) ==
    CASE cls = OpenSearchBM25Retriever -> OpenSearchBM25Retriever_init(kwargs)
      [] cls = QdrantEmbeddingRetriever -> QdrantEmbeddingRetriever_init(kwargs)
      [] cls = QdrantSparseEmbeddingRetriever -> QdrantSparseEmbeddingRetriever_init(kwargs)
      [] cls = QdrantHybridRetriever -> QdrantHybridRetriever_init(kwargs)

\* ------------------------------------------------------------------- run
\* "if x is None: x = default"
IfNone(x, default) == IF x = None THEN default ELSE x
\* "x or default" for an int, a bool and a float
OrInt(x, default) == IF TruthyInt(x) THEN x ELSE default
OrBool(x, default) == IF TruthyBool(x) THEN x ELSE default
OrFloat(x, default) == IF TruthyFloat(x) THEN x ELSE default

\* What one run call leaves behind: the exception that reached the caller
\* (None if it returned), the returned mapping, the calls made into the store
\* in order, and the retriever's attributes afterwards.
RunResult(raised, returned, calls, self) ==
    [ raised |-> raised, returned |-> returned, calls |-> calls, self |-> self ]
StoreCall(method, kwargs) == [ method |-> method, kwargs |-> kwargs ]

OpenSearchBM25Retriever_run_params ==
    { "query", "filters", "all_terms_must_match", "top_k", "fuzziness", "scale_score",
      "custom_query" }

\* Mutant of OpenSearchBM25Retriever_run_filters: the resolver's result is
\* forwarded as it is.
OpenSearchBM25Retriever_run_filters_unguarded(self, resolved) == resolved

\* "if filters is None: filters = self._filters", filters being what
\* apply_filter_policy returned.
OpenSearchBM25Retriever_run_filters(self, resolved) ==
    IfNone(resolved, self["_filters"])

\* Mutant of OpenSearchBM25Retriever_run_args: the init and the runtime filters
\* are handed to apply_filter_policy in the wrong order.
OpenSearchBM25Retriever_run_args_swapped(self, kwargs) ==
    LET filters == apply_filter_policy(Val(self["_filter_policy"]),
                                       Arg(kwargs, "filters", None), self["_filters"])
    IN  [ query |-> kwargs["query"],
          filters |-> IfNone(filters, self["_filters"]),
          fuzziness |-> IfNone(Arg(kwargs, "fuzziness", None), self["_fuzziness"]),
          top_k |-> IfNone(Arg(kwargs, "top_k", None), self["_top_k"]),
          scale_score |-> IfNone(Arg(kwargs, "scale_score", None), self["_scale_score"]),
          all_terms_must_match |->
              IfNone(Arg(kwargs, "all_terms_must_match", None), self["_all_terms_must_match"]),
          custom_query |-> IfNone(Arg(kwargs, "custom_query", None), self["_custom_query"]) ]

\* Mutant of OpenSearchBM25Retriever_run_args: the booleans are resolved with
\* "or", as the Qdrant retrievers do.
OpenSearchBM25Retriever_run_args_truthy(self, kwargs) ==
    LET filters == apply_filter_policy(Val(self["_filter_policy"]), self["_filters"],
                                       Arg(kwargs, "filters", None))
    IN  [ query |-> kwargs["query"],
          filters |-> IfNone(filters, self["_filters"]),
          fuzziness |-> IfNone(Arg(kwargs, "fuzziness", None), self["_fuzziness"]),
          top_k |-> IfNone(Arg(kwargs, "top_k", None), self["_top_k"]),
          scale_score |-> OrBool(Arg(kwargs, "scale_score", None), self["_scale_score"]),
          all_terms_must_match |->
              OrBool(Arg(kwargs, "all_terms_must_match", None), self["_all_terms_must_match"]),
          custom_query |-> IfNone(Arg(kwargs, "custom_query", None), self["_custom_query"]) ]

\* The keyword arguments run resolves for _bm25_retrieval.
OpenSearchBM25Retriever_run_args(self, kwargs) ==
    LET filters == apply_filter_policy(Val(self["_filter_policy"]), self["_filters"],
                                       Arg(kwargs, "filters", None))
    IN  [ query |-> kwargs["query"],
          filters |-> OpenSearchBM25Retriever_run_filters(self, filters),
          fuzziness |-> IfNone(Arg(kwargs, "fuzziness", None), self["_fuzziness"]),
          top_k |-> IfNone(Arg(kwargs, "top_k", None), self["_top_k"]),
          scale_score |-> IfNone(Arg(kwargs, "scale_score", None), self["_scale_score"]),
          all_terms_must_match |->
              IfNone(Arg(kwargs, "all_terms_must_match", None), self["_all_terms_must_match"]),
          custom_query |-> IfNone(Arg(kwargs, "custom_query", None), self["_custom_query"]) ]

\* Mutant of OpenSearchBM25Retriever_run: the except branch tests the flag the
\* wrong way round.
OpenSearchBM25Retriever_run_inverted(self, kwargs, resp) ==
    IF BindRaises(kwargs, OpenSearchBM25Retriever_run_params, {"query"})
    THEN RunResult(Some("TypeError"), None, <<>>, self)
    ELSE LET call == StoreCall("_bm25_retrieval", OpenSearchBM25Retriever_run_args(self, kwargs))
             docs == IF resp.raises THEN <<>> ELSE resp.docs
         IN  IF resp.raises /\ ~TruthyBool(self["_raise_on_failure"])
             THEN RunResult(Some(resp.exc), None, <<call>>, self)
             ELSE RunResult(None, Some([documents |-> docs]), <<call>>, self)

\* run: docs starts as [], the store call is guarded by try/except.
OpenSearchBM25Retriever_run(self, kwargs, resp) ==
    IF BindRaises(kwargs, OpenSearchBM25Retriever_run_params, {"query"})
    THEN RunResult(Some("TypeError"), None, <<>>, self)
    ELSE LET call == StoreCall("_bm25_retrieval", OpenSearchBM25Retriever_run_args(self, kwargs))
             docs == IF resp.raises THEN <<>> ELSE resp.docs
         IN  IF resp.raises /\ TruthyBool(self["_raise_on_failure"])
             THEN RunResult(Some(resp.exc), None, <<call>>, self)
             ELSE RunResult(None, Some([documents |-> docs]), <<call>>, self)

Qdrant_run_params(query_params) ==
    query_params \cup { "filters", "top_k", "scale_score", "return_embedding", "score_threshold" }

\* Mutant of QdrantEmbeddingRetriever_run_args: scale_score is resolved by
\* presence.
QdrantEmbeddingRetriever_run_args_presence(self, kwargs) ==
    [ query_embedding |-> kwargs["query_embedding"],
      filters |-> apply_filter_policy(Val(self["_filter_policy"]), self["_filters"],
                                      Arg(kwargs, "filters", None)),
      top_k |-> OrInt(Arg(kwargs, "top_k", None), self["_top_k"]),
      scale_score |-> IfNone(Arg(kwargs, "scale_score", None), self["_scale_score"]),
      return_embedding |->
          OrBool(Arg(kwargs, "return_embedding", None), self["_return_embedding"]),
      score_threshold |->
          OrFloat(Arg(kwargs, "score_threshold", None), self["_score_threshold"]) ]

QdrantEmbeddingRetriever_run_args(self, kwargs) ==
    [ query_embedding |-> kwargs["query_embedding"],
      filters |-> apply_filter_policy(Val(self["_filter_policy"]), self["_filters"],
                                      Arg(kwargs, "filters", None)),
      top_k |-> OrInt(Arg(kwargs, "top_k", None), self["_top_k"]),
      scale_score |-> OrBool(Arg(kwargs, "scale_score", None), self["_scale_score"]),
      return_embedding |->
          OrBool(Arg(kwargs, "return_embedding", None), self["_return_embedding"]),
      score_threshold |->
          OrFloat(Arg(kwargs, "score_threshold", None), self["_score_threshold"]) ]

\* Mutant of QdrantEmbeddingRetriever_run: only the first document the store
\* returned is handed on.
QdrantEmbeddingRetriever_run_first_only(self, kwargs, resp) ==
    IF BindRaises(kwargs, Qdrant_run_params({"query_embedding"}), {"query_embedding"})
    THEN RunResult(Some("TypeError"), None, <<>>, self)
    ELSE LET call == StoreCall("_query_by_embedding",
                               QdrantEmbeddingRetriever_run_args(self, kwargs))
             docs == IF resp.docs = <<>> THEN <<>> ELSE << Head(resp.docs) >>
         IN  IF resp.raises
             THEN RunResult(Some(resp.exc), None, <<call>>, self)
             ELSE RunResult(None, Some([documents |-> docs]), <<call>>, self)

QdrantEmbeddingRetriever_run(self, kwargs, resp) ==
    IF BindRaises(kwargs, Qdrant_run_params({"query_embedding"}), {"query_embedding"})
    THEN RunResult(Some("TypeError"), None, <<>>, self)
    ELSE LET call == StoreCall("_query_by_embedding",
                               QdrantEmbeddingRetriever_run_args(self, kwargs))
         IN  IF resp.raises
             THEN RunResult(Some(resp.exc), None, <<call>>, self)
             ELSE RunResult(None, Some([documents |-> resp.docs]), <<call>>, self)

\* Mutant of QdrantSparseEmbeddingRetriever_run_args: "self._top_k or top_k".
QdrantSparseEmbeddingRetriever_run_args_default_first(self, kwargs) ==
    [ query_sparse_embedding |-> kwargs["query_sparse_embedding"],
      filters |-> apply_filter_policy(Val(self["_filter_policy"]), self["_filters"],
                                      Arg(kwargs, "filters", None)),
      top_k |-> OrInt(self["_top_k"], Arg(kwargs, "top_k", None)),
      scale_score |-> OrBool(Arg(kwargs, "scale_score", None), self["_scale_score"]),
      return_embedding |->
          OrBool(Arg(kwargs, "return_embedding", None), self["_return_embedding"]),
      score_threshold |->
          OrFloat(Arg(kwargs, "score_threshold", None), self["_score_threshold"]) ]

QdrantSparseEmbeddingRetriever_run_args(self, kwargs) ==
    [ query_sparse_embedding |-> kwargs["query_sparse_embedding"],
      filters |-> apply_filter_policy(Val(self["_filter_policy"]), self["_filters"],
                                      Arg(kwargs, "filters", None)),
      top_k |-> OrInt(Arg(kwargs, "top_k", None), self["_top_k"]),
      scale_score |-> OrBool(Arg(kwargs, "scale_score", None), self["_scale_score"]),
      return_embedding |->
          OrBool(Arg(kwargs, "return_embedding", None), self["_return_embedding"]),
      score_threshold |->
          OrFloat(Arg(kwargs, "score_threshold", None), self["_score_threshold"]) ]

\* Mutant of QdrantSparseEmbeddingRetriever_run: the store call is guarded as
\* in the BM25 retriever and a failure yields no documents.
QdrantSparseEmbeddingRetriever_run_guarded(self, kwargs, resp) ==
    IF BindRaises(kwargs, Qdrant_run_params({"query_sparse_embedding"}),
                  {"query_sparse_embedding"})
    THEN RunResult(Some("TypeError"), None, <<>>, self)
    ELSE LET call == StoreCall("_query_by_sparse",
                               QdrantSparseEmbeddingRetriever_run_args(self, kwargs))
         IN  RunResult(None,
                       Some([documents |-> IF resp.raises THEN <<>> ELSE resp.docs]),
                       <<call>>, self)

\* Mutant of QdrantSparseEmbeddingRetriever_run: the resolved filters are kept
\* on the retriever ("self._filters = filters").
QdrantSparseEmbeddingRetriever_run_remembering(self, kwargs, resp) ==
    IF BindRaises(kwargs, Qdrant_run_params({"query_sparse_embedding"}),
                  {"query_sparse_embedding"})
    THEN RunResult(Some("TypeError"), None, <<>>, self)
    ELSE LET call == StoreCall("_query_by_sparse",
                               QdrantSparseEmbeddingRetriever_run_args(self, kwargs))
             kept == SetItem(self, "_filters", call.kwargs.filters)
         IN  IF resp.raises
             THEN RunResult(Some(resp.exc), None, <<call>>, kept)
             ELSE RunResult(None, Some([documents |-> resp.docs]), <<call>>, kept)

QdrantSparseEmbeddingRetriever_run(self, kwargs, resp) ==
    IF BindRaises(kwargs, Qdrant_run_params({"query_sparse_embedding"}),
                  {"query_sparse_embedding"})
    THEN RunResult(Some("TypeError"), None, <<>>, self)
    ELSE LET call == StoreCall("_query_by_sparse",
                               QdrantSparseEmbeddingRetriever_run_args(self, kwargs))
         IN  IF resp.raises
             THEN RunResult(Some(resp.exc), None, <<call>>, self)
             ELSE RunResult(None, Some([documents |-> resp.docs]), <<call>>, self)

\* The hybrid run has no scale_score parameter and forwards none.
QdrantHybridRetriever_run_params ==
    { "query_embedding", "query_sparse_embedding", "filters", "top_k", "return_embedding",
      "score_threshold" }

\* Mutant of QdrantHybridRetriever_run_args: the init and the runtime filters
\* are handed to apply_filter_policy in the wrong order.
QdrantHybridRetriever_run_args_swapped(self, kwargs) ==
    [ query_embedding |-> kwargs["query_embedding"],
      query_sparse_embedding |-> kwargs["query_sparse_embedding"],
      filters |-> apply_filter_policy(Val(self["_filter_policy"]),
                                      Arg(kwargs, "filters", None), self["_filters"]),
      top_k |-> OrInt(Arg(kwargs, "top_k", None), self["_top_k"]),
      return_embedding |->
          OrBool(Arg(kwargs, "return_embedding", None), self["_return_embedding"]),
      score_threshold |->
          OrFloat(Arg(kwargs, "score_threshold", None), self["_score_threshold"]) ]

\* Mutant of QdrantHybridRetriever_run_args: the overrides are resolved by
\* presence.
QdrantHybridRetriever_run_args_presence(self, kwargs) ==
    [ query_embedding |-> kwargs["query_embedding"],
      query_sparse_embedding |-> kwargs["query_sparse_embedding"],
      filters |-> apply_filter_policy(Val(self["_filter_policy"]), self["_filters"],
                                      Arg(kwargs, "filters", None)),
      top_k |-> IfNone(Arg(kwargs, "top_k", None), self["_top_k"]),
      return_embedding |->
          IfNone(Arg(kwargs, "return_embedding", None), self["_return_embedding"]),
      score_threshold |->
          IfNone(Arg(kwargs, "score_threshold", None), self["_score_threshold"]) ]

QdrantHybridRetriever_run_args(self, kwargs) ==
    [ query_embedding |-> kwargs["query_embedding"],
      query_sparse_embedding |-> kwargs["query_sparse_embedding"],
      filters |-> apply_filter_policy(Val(self["_filter_policy"]), self["_filters"],
                                      Arg(kwargs, "filters", None)),
      top_k |-> OrInt(Arg(kwargs, "top_k", None), self["_top_k"]),
      return_embedding |->
          OrBool(Arg(kwargs, "return_embedding", None), self["_return_embedding"]),
      score_threshold |->
          OrFloat(Arg(kwargs, "score_threshold", None), self["_score_threshold"]) ]

QdrantHybridRetriever_run(self, kwargs, resp) ==
    IF BindRaises(kwargs, QdrantHybridRetriever_run_params,
                  {"query_embedding", "query_sparse_embedding"})
    THEN RunResult(Some("TypeError"), None, <<>>, self)
    ELSE LET call == StoreCall("_query_hybrid", QdrantHybridRetriever_run_args(self, kwargs))
         IN  IF resp.raises
             THEN RunResult(Some(resp.exc), None, <<call>>, self)
             ELSE RunResult(None, Some([documents |-> resp.docs]), <<call>>, self)

\* retriever.run(**kwargs)
RunOf(cls, self, kwargs, resp) ==
    CASE cls = OpenSearchBM25Retriever -> OpenSearchBM25Retriever_run(self, kwargs, resp)
      [] cls = QdrantEmbeddingRetriever -> QdrantEmbeddingRetriever_run(self, kwargs, resp)
      [] cls = QdrantSparseEmbeddingRetriever ->
             QdrantSparseEmbeddingRetriever_run(self, kwargs, resp)
      [] cls = QdrantHybridRetriever -> QdrantHybridRetriever_run(self, kwargs, resp)

\* retriever.run(**kwargs) when apply_filter_policy returns `resolved`: the
\* resolver's result reaches nothing but the filters argument of the store
\* call, through the None guard in the BM25 retriever and directly in the
\* Qdrant ones.
RunOf_resolving(cls, self, kwargs, resp, resolved) ==
    LET r == RunOf(cls, self, kwargs, resp)
        filters == IF cls = OpenSearchBM25Retriever
                   THEN OpenSearchBM25Retriever_run_filters(self, resolved)
                   ELSE resolved
    IN  IF r.calls = <<>> THEN r
        ELSE [ r EXCEPT !.calls = << [ r.calls[1] EXCEPT !.kwargs.filters = filters ] >> ]

\* The query arguments of each run, always passed.
QueryArgs(cls) ==
    CASE cls = OpenSearchBM25Retriever -> ("query" :> Some("why"))
      [] cls = QdrantEmbeddingRetriever -> ("query_embedding" :> Some("dense"))
      [] cls = QdrantSparseEmbeddingRetriever -> ("query_sparse_embedding" :> Some("sparse"))
      [] cls = QdrantHybridRetriever ->
             ("query_embedding" :> Some("dense")) @@ ("query_sparse_embedding" :> Some("sparse"))

\* ------------------------------------------------------ to_dict / from_dict
\* The "type" entry default_to_dict writes: the class's module and name.
TypeName(cls) ==
    IF cls = OpenSearchBM25Retriever
    THEN "haystack_integrations.components.retrievers.opensearch.bm25_retriever." \o cls
    ELSE "haystack_integrations.components.retrievers.qdrant.retriever." \o cls

\* haystack.default_to_dict(obj, **init_parameters)
default_to_dict(cls, init_parameters) ==
    [ type |-> TypeName(cls), init_parameters |-> init_parameters ]

\* A retriever object: its class and its attributes.
Object(cls, attrs) == [ cls |-> cls, attrs |-> attrs ]

\* What from_dict leaves behind: the exception raised (None if none), the
\* caller's mapping as it is afterwards, and the retriever returned.
FromDictResult(raised, data, obj) == [ raised |-> raised, data |-> data, obj |-> obj ]

\* haystack.default_from_dict(cls, data): the type entry must name cls, then
\* cls(**data["init_parameters"]).
default_from_dict(cls, data) ==
    IF data.type # TypeName(cls)
    THEN FromDictResult(Some("DeserializationError"), data, None)
    ELSE LET r == InitOf(cls, data.init_parameters)
         IN  FromDictResult(r.raised, data,
                            IF r.raised = None THEN Some(Object(cls, r.attrs)) ELSE None)

\* data["init_parameters"][key] = value
SetInitParameter(data, key, value) ==
    [ data EXCEPT !.init_parameters = SetItem(data.init_parameters, key, value) ]

OpenSearchBM25Retriever_to_dict(self) ==
    default_to_dict(OpenSearchBM25Retriever,
        ("filters" :> self["_filters"])
        @@ ("fuzziness" :> self["_fuzziness"])
        @@ ("top_k" :> self["_top_k"])
        @@ ("scale_score" :> self["_scale_score"])
        @@ ("document_store" :> Some(Store_to_dict(Val(self["_document_store"]))))
        @@ ("filter_policy" :> Some(FilterPolicy_value(Val(self["_filter_policy"]))))
        @@ ("custom_query" :> self["_custom_query"])
        @@ ("raise_on_failure" :> self["_raise_on_failure"]))

QdrantEmbeddingRetriever_to_dict(self) ==
    LET d == default_to_dict(QdrantEmbeddingRetriever,
                 ("document_store" :> self["_document_store"])
                 @@ ("filters" :> self["_filters"])
                 @@ ("top_k" :> self["_top_k"])
                 @@ ("filter_policy" :> Some(FilterPolicy_value(Val(self["_filter_policy"]))))
                 @@ ("scale_score" :> self["_scale_score"])
                 @@ ("return_embedding" :> self["_return_embedding"])
                 @@ ("score_threshold" :> self["_score_threshold"]))
    IN  SetInitParameter(d, "document_store",
                         Some(Store_to_dict(Val(self["_document_store"]))))

QdrantSparseEmbeddingRetriever_to_dict(self) ==
    LET d == default_to_dict(QdrantSparseEmbeddingRetriever,
                 ("document_store" :> self["_document_store"])
                 @@ ("filters" :> self["_filters"])
                 @@ ("top_k" :> self["_top_k"])
                 @@ ("scale_score" :> self["_scale_score"])
                 @@ ("filter_policy" :> Some(FilterPolicy_value(Val(self["_filter_policy"]))))
                 @@ ("return_embedding" :> self["_return_embedding"])
                 @@ ("score_threshold" :> self["_score_threshold"]))
    IN  SetInitParameter(d, "document_store",
                         Some(Store_to_dict(Val(self["_document_store"]))))

QdrantHybridRetriever_to_dict(self) ==
    default_to_dict(QdrantHybridRetriever,
        ("document_store" :> Some(Store_to_dict(Val(self["_document_store"]))))
        @@ ("filters" :> self["_filters"])
        @@ ("top_k" :> self["_top_k"])
        @@ ("filter_policy" :> Some(FilterPolicy_value(Val(self["_filter_policy"]))))
        @@ ("return_embedding" :> self["_return_embedding"])
        @@ ("score_threshold" :> self["_score_threshold"]))

\* Mutant of Class_from_dict: the entries are replaced in a copy of the
\* mapping; the caller's mapping stays as it was.
Class_from_dict_on_copy(cls, data) ==
    LET with_store ==
            SetInitParameter(data, "document_store",
                Some(Store_from_dict(ExpectedStore(cls),
                                     Val(data.init_parameters["document_store"]))))
        token == Val(data.init_parameters["filter_policy"])
        r == IF FilterPolicy_from_str_raises(token)
             THEN FromDictResult(Some("ValueError"), with_store, None)
             ELSE default_from_dict(cls,
                      SetInitParameter(with_store, "filter_policy",
                                       Some(FilterPolicy_from_str(token))))
    IN  FromDictResult(r.raised, data, r.obj)

\* from_dict of each class: the store entry is replaced by the deserialized
\* store, then the filter_policy entry by the enum member, both in the
\* caller's mapping, then default_from_dict builds the retriever.
Class_from_dict(cls, data) ==
    LET with_store ==
            SetInitParameter(data, "document_store",
                Some(Store_from_dict(ExpectedStore(cls),
                                     Val(data.init_parameters["document_store"]))))
        token == Val(data.init_parameters["filter_policy"])
    IN  IF FilterPolicy_from_str_raises(token)
        THEN FromDictResult(Some("ValueError"), with_store, None)
        ELSE default_from_dict(cls,
                 SetInitParameter(with_store, "filter_policy",
                                  Some(FilterPolicy_from_str(token))))

OpenSearchBM25Retriever_from_dict(data) == Class_from_dict(OpenSearchBM25Retriever, data)
QdrantEmbeddingRetriever_from_dict(data) == Class_from_dict(QdrantEmbeddingRetriever, data)
QdrantSparseEmbeddingRetriever_from_dict(data) ==
    Class_from_dict(QdrantSparseEmbeddingRetriever, data)
QdrantHybridRetriever_from_dict(data) == Class_from_dict(QdrantHybridRetriever, data)

ToDictOf(cls, self) ==
    CASE cls = OpenSearchBM25Retriever -> OpenSearchBM25Retriever_to_dict(self)
      [] cls = QdrantEmbeddingRetriever -> QdrantEmbeddingRetriever_to_dict(self)
      [] cls = QdrantSparseEmbeddingRetriever -> QdrantSparseEmbeddingRetriever_to_dict(self)
      [] cls = QdrantHybridRetriever -> QdrantHybridRetriever_to_dict(self)

FromDictOf(cls, data) ==
    CASE cls = OpenSearchBM25Retriever -> OpenSearchBM25Retriever_from_dict(data)
      [] cls = QdrantEmbeddingRetriever -> QdrantEmbeddingRetriever_from_dict(data)
      [] cls = QdrantSparseEmbeddingRetriever -> QdrantSparseEmbeddingRetriever_from_dict(data)
      [] cls = QdrantHybridRetriever -> QdrantHybridRetriever_from_dict(data)

\* ------------------------------------------------------- the callers' inputs
\* Values a caller passes for each constructor parameter. A parameter that is
\* not passed takes the signature's default (None for the optional ones).
InitValues(name) ==
    CASE name = "filters" -> { Some(f) : f \in Filters }
      [] name = "fuzziness" -> { Some("1") }
      [] name = "top_k" -> { Some(k) : k \in 0..MaxTopK }
      [] name = "score_threshold" -> { Some(t) : t \in 0..MaxThreshold }
      [] name = "custom_query" -> { Some(q) : q \in CustomQueries }
      [] OTHER -> Bools

\* Values a caller passes for each run parameter. Every run parameter defaults
\* to None, so a parameter that is not passed is one passed as None.
RunValues(name) ==
    CASE name = "filters" -> { Some(f) : f \in Filters }
      [] name = "fuzziness" -> { Some(""), Some("1") }
      [] name = "top_k" -> { Some(k) : k \in 0..MaxTopK }
      [] name = "score_threshold" -> { Some(t) : t \in 0..MaxThreshold }
      [] name = "custom_query" -> { Some(q) : q \in CustomQueries }
      [] OTHER -> Bools

ValuesOf(kind, name) == IF kind = "init" THEN InitValues(name) ELSE RunValues(name)

\* The keyword-argument lists that pass at most n of the names.
RECURSIVE KwargsOver(_, _, _)
KwargsOver(names, kind, n) ==
    IF names = <<>> THEN { EmptyDict }
    ELSE LET rest == KwargsOver(Tail(names), kind, n)
         IN  rest \cup
             { (Head(names) :> v) @@ r :
                 r \in { x \in rest : Cardinality(DOMAIN x) < n },
                 v \in ValuesOf(kind, Head(names)) }

\* The BM25 retriever is offered its own parameters; a Qdrant retriever is
\* offered the parameters of the Qdrant retrievers (scale_score included, which
\* the hybrid one does not have).
OpenSearchInitKwargs ==
    KwargsOver(<<"filters", "fuzziness", "top_k", "scale_score", "all_terms_must_match",
                 "custom_query", "raise_on_failure">>, "init", MaxArgs)
QdrantInitKwargs ==
    KwargsOver(<<"filters", "top_k", "scale_score", "return_embedding", "score_threshold">>,
               "init", MaxArgs)
OpenSearchRunKwargs ==
    KwargsOver(<<"filters", "all_terms_must_match", "top_k", "fuzziness", "scale_score",
                 "custom_query">>, "run", MaxArgs)
QdrantRunKwargs ==
    KwargsOver(<<"filters", "top_k", "scale_score", "return_embedding", "score_threshold">>,
               "run", MaxArgs)
InitKwargs(cls) ==
    IF cls = OpenSearchBM25Retriever THEN OpenSearchInitKwargs ELSE QdrantInitKwargs
RunKwargs(cls) ==
    IF cls = OpenSearchBM25Retriever THEN OpenSearchRunKwargs ELSE QdrantRunKwargs

\* filter_policy: omitted, an enum member, or a string.
PolicyArgs ==
    { EmptyDict } \cup
    { ("filter_policy" :> Some(p)) :
        p \in { REPLACE, MERGE, PyStr("replace"), PyStr("merge"), PyStr("bogus") } }

\* The parameters of each constructor.
InitParamsOf(cls) ==
    CASE cls = OpenSearchBM25Retriever -> OpenSearchBM25Retriever_init_params
      [] cls = QdrantHybridRetriever -> QdrantHybridRetriever_init_params
      [] OTHER -> Qdrant_init_params

\* What the store's query method does when called: it raises, or it returns a
\* sequence of documents.
DocIds == { "d1", "d2" }
DocSeqs == UNION { [1..n -> DocIds] : n \in 0..MaxDocs }
StoreResponses ==
    { [ raises |-> TRUE, exc |-> "StoreError", docs |-> <<>> ] }
    \cup { [ raises |-> FALSE, exc |-> "", docs |-> d ] : d \in DocSeqs }

\* What a filter-policy resolver can hand back: None, the empty mapping, or
\* filters (those on the lang field stand for all), related in no way to the
\* filters it was given.
ResolvedFilters ==
    { None } \cup { Some(f) : f \in { g \in Filters : DOMAIN g \subseteq {"lang"} } }

\* The attributes each class gets from its defaults alone.
DefaultStore(cls) == [ cls |-> ExpectedStore(cls), index |-> "default" ]
DefaultAttrs ==
    [ cls \in Classes |-> InitOf(cls, "document_store" :> Some(DefaultStore(cls))).attrs ]

\* How many attributes of obj differ from the class's defaults (the filter
\* policy aside).
Deviations(obj) ==
    Cardinality({ a \in DOMAIN obj.attrs \ { "_filter_policy" } :
                    obj.attrs[a] # DefaultAttrs[obj.cls][a] })

\* The keyword-argument lists of a set that pass at most n names.
AtMost(kwargs_set, n) == { kw \in kwargs_set : Cardinality(DOMAIN kw) <= n }

\* ------------------------------------------------------------ state machine
VARIABLES
    retriever,   \* None, or the retriever object the caller holds
    op           \* the operation that just completed, with all it did
vars == << retriever, op >>

Idle == [ kind |-> "idle" ]

Init ==
    /\ retriever = None
    /\ op = Idle

\* cls(document_store=..., ...)
Construct ==
    /\ retriever = None
    /\ op = Idle
    /\ \E cls \in Classes, store \in Stores, policy \in PolicyArgs :
         \E kw \in AtMost(InitKwargs(cls),
                          IF store = DefaultStore(cls) THEN MaxArgs ELSE MaxArgs - 1) :
           LET kwargs == kw @@ ("document_store" :> Some(store)) @@ policy
               r == InitOf(cls, kwargs)
           IN  /\ retriever' = IF r.raised = None THEN Some(Object(cls, r.attrs)) ELSE None
               /\ op' = [ kind |-> "__init__", cls |-> cls, kwargs |-> kwargs,
                          raised |-> r.raised, attrs |-> r.attrs ]

\* retriever.run(query, ...)
Run ==
    /\ retriever # None
    /\ op = Idle
    /\ LET obj == Val(retriever)
       IN  \E kw \in AtMost(RunKwargs(obj.cls), MaxArgs - Deviations(obj)),
              resp \in StoreResponses :
             LET kwargs == kw @@ QueryArgs(obj.cls)
                 r == RunOf(obj.cls, obj.attrs, kwargs, resp)
             IN  /\ retriever' = Some(Object(obj.cls, r.self))
                 /\ op' = [ kind |-> "run", kwargs |-> kwargs,
                            resp |-> IF r.calls = <<>> THEN None ELSE Some(resp),
                            raised |-> r.raised, returned |-> r.returned,
                            calls |-> r.calls ]

\* retriever.to_dict()
ToDict ==
    /\ retriever # None
    /\ op = Idle
    /\ op' = [ kind |-> "to_dict",
               data |-> ToDictOf(Val(retriever).cls, Val(retriever).attrs) ]
    /\ UNCHANGED retriever

\* type(retriever).from_dict(data), data being the mapping to_dict returned
FromDict ==
    /\ retriever # None
    /\ op.kind = "to_dict"
    /\ LET r == FromDictOf(Val(retriever).cls, op.data)
       IN  op' = [ kind |-> "from_dict", data_in |-> op.data, data |-> r.data,
                   raised |-> r.raised, obj |-> r.obj ]
    /\ UNCHANGED retriever

\* The call is over: the caller goes on, holding the retriever only.
CallerProceeds ==
    /\ op # Idle
    /\ op' = Idle
    /\ UNCHANGED retriever

Next == Construct \/ Run \/ ToDict \/ FromDict \/ CallerProceeds

Spec == Init /\ [][Next]_vars

\* retriever.run(query, ...) with a resolver about which nothing is assumed:
\* it returns any of ResolvedFilters, whatever it is given.
RunAnyResolver ==
    /\ retriever # None
    /\ op = Idle
    /\ LET obj == Val(retriever)
       IN  \E kw \in AtMost(RunKwargs(obj.cls), MaxArgs - Deviations(obj)),
              resp \in StoreResponses, resolved \in ResolvedFilters :
             LET kwargs == kw @@ QueryArgs(obj.cls)
                 r == RunOf_resolving(obj.cls, obj.attrs, kwargs, resp, resolved)
             IN  /\ retriever' = Some(Object(obj.cls, r.self))
                 /\ op' = [ kind |-> "run", kwargs |-> kwargs,
                            resp |-> IF r.calls = <<>> THEN None ELSE Some(resp),
                            resolved |-> resolved,
                            raised |-> r.raised, returned |-> r.returned,
                            calls |-> r.calls ]

NextAnyResolver == Construct \/ RunAnyResolver \/ CallerProceeds

SpecAnyResolver == Init /\ [][NextAnyResolver]_vars

\* ------------------------------------------------------------------ claims
\* Shorthands for the formulas below.
Cls == Val(retriever).cls
Self == Val(retriever).attrs
\* A run call completed and reached the store.
RunCalledStore == op.kind = "run" /\ op.calls # <<>>
\* The keyword arguments the store's query method received.
Forwarded == op.calls[1].kwargs
\* The call-time value of a run parameter (None when not given).
Given(name) == Arg(op.kwargs, name, None)
\* The store raised during the run call.
StoreRaised == op.kind = "run" /\ op.resp # None /\ Val(op.resp).raises

\* C1: under filter policy REPLACE, in all four retrievers, run forwards
\* exactly the call-time filters when they are given and the configured
\* default filters when they are not.
C1_ReplaceForwardsCallTimeFilters ==
    (RunCalledStore /\ Self["_filter_policy"] = Some(REPLACE)) =>
        Forwarded.filters =
            IF Given("filters") # None THEN Given("filters") ELSE Self["_filters"]

\* C1 witness: BM25 retriever configured with {"lang": "en"}, run with
\* {"year": "2020"} under REPLACE: the store receives {"year": "2020"} only.
C1_Witness ==
    /\ RunCalledStore
    /\ Cls = OpenSearchBM25Retriever
    /\ Self["_filter_policy"] = Some(REPLACE)
    /\ Self["_filters"] = Some([k \in {"lang"} |-> "en"])
    /\ Given("filters") = Some([k \in {"year"} |-> "2020"])
    /\ Forwarded.filters = Some([k \in {"year"} |-> "2020"])

\* C2: under filter policy MERGE, in all four retrievers, the filters run
\* forwards have every field of the configured defaults and of the call-time
\* filters, with the call-time value on a field both have; without call-time
\* filters the configured defaults are forwarded.
C2_MergeCombinesFilters ==
    (RunCalledStore /\ Self["_filter_policy"] = Some(MERGE)) =>
        IF Given("filters") = None
        THEN Forwarded.filters = Self["_filters"]
        ELSE /\ Forwarded.filters # None
             /\ LET f == Val(Forwarded.filters)
                    g == Val(Given("filters"))
                    d == IF Self["_filters"] = None THEN EmptyDict ELSE Val(Self["_filters"])
                IN  /\ (DOMAIN d) \cup (DOMAIN g) \subseteq DOMAIN f
                    /\ \A k \in DOMAIN g : f[k] = g[k]
                    /\ \A k \in (DOMAIN d) \ (DOMAIN g) : f[k] = d[k]

\* C2 witness: hybrid retriever configured with {"lang": "en"} under MERGE, run
\* with {"lang": "de", "year": "2020"}: both fields arrive, lang as "de".
C2_Witness ==
    /\ RunCalledStore
    /\ Cls = QdrantHybridRetriever
    /\ Self["_filter_policy"] = Some(MERGE)
    /\ Self["_filters"] = Some([k \in {"lang"} |-> "en"])
    /\ Given("filters") = Some([k \in {"lang", "year"} |-> IF k = "lang" THEN "de" ELSE "2020"])
    /\ Forwarded.filters = Given("filters")

\* C3: when _bm25_retrieval raises, OpenSearchBM25Retriever.run raises that
\* exception if raise_on_failure is true, and otherwise returns exactly
\* {"documents": []} without raising.
C3_BM25FailureHandling ==
    (StoreRaised /\ Cls = OpenSearchBM25Retriever) =>
        IF Self["_raise_on_failure"] = Some(TRUE)
        THEN op.raised = Some(Val(op.resp).exc) /\ op.returned = None
        ELSE op.raised = None /\ op.returned = Some([documents |-> <<>>])

\* C3 witness: raise_on_failure=False, the store raised, run returned no documents.
C3_Witness ==
    /\ StoreRaised
    /\ Cls = OpenSearchBM25Retriever
    /\ Self["_raise_on_failure"] = Some(FALSE)
    /\ op.raised = None
    /\ op.returned = Some([documents |-> <<>>])

\* C4: in the three Qdrant retrievers an exception of the store's query
\* method always reaches the caller of run, whatever the configuration: run
\* returns nothing for such a call.
C4_QdrantPropagatesStoreErrors ==
    (StoreRaised /\ Cls \in QdrantClasses) =>
        op.raised = Some(Val(op.resp).exc) /\ op.returned = None

\* C4 witness: a sparse retriever's store raised and run raised.
C4_Witness ==
    /\ StoreRaised
    /\ Cls = QdrantSparseEmbeddingRetriever
    /\ op.calls[1].method = "_query_by_sparse"
    /\ op.raised = Some("StoreError")

\* C5: constructing any of the four retrievers with a document_store that is
\* not an instance of the store class it expects raises ValueError before any
\* attribute is assigned and leaves no retriever, whatever the other
\* constructor arguments are.
C5_WrongStoreRejected ==
    ( /\ op.kind = "__init__"
      /\ DOMAIN op.kwargs \subseteq InitParamsOf(op.cls)
      /\ Val(op.kwargs["document_store"]).cls # ExpectedStore(op.cls) ) =>
        /\ op.raised = Some("ValueError")
        /\ DOMAIN op.attrs = {}
        /\ retriever = None

\* C5 witness: a BM25 retriever given a Qdrant store, with other arguments
\* passed too: ValueError, nothing assigned.
C5_Witness ==
    /\ op.kind = "__init__"
    /\ op.cls = OpenSearchBM25Retriever
    /\ Val(op.kwargs["document_store"]).cls = QdrantDocumentStore
    /\ { "raise_on_failure", "filter_policy" } \subseteq DOMAIN op.kwargs
    /\ op.raised = Some("ValueError")
    /\ DOMAIN op.attrs = {}
    /\ retriever = None

\* C6: for all four retrievers from_dict(to_dict(r)) succeeds and yields a
\* retriever of r's class whose every configuration field equals r's.
C6_RoundTripIdentical ==
    op.kind = "from_dict" => (op.raised = None /\ op.obj = retriever)

\* C7: in all four retrievers run called with a positive top_k forwards that
\* top_k whatever the configured default, and run called without top_k
\* forwards the configured default.
C7_TopKResolution ==
    RunCalledStore =>
        /\ (Given("top_k") # None /\ Val(Given("top_k")) > 0) =>
               Forwarded.top_k = Given("top_k")
        /\ Given("top_k") = None => Forwarded.top_k = Self["_top_k"]

\* C7 witness: a sparse retriever configured with top_k=1 is run with
\* top_k=2 and the store receives 2.
C7_Witness ==
    /\ RunCalledStore
    /\ Cls = QdrantSparseEmbeddingRetriever
    /\ Self["_top_k"] = Some(1)
    /\ Given("top_k") = Some(2)
    /\ Forwarded.top_k = Some(2)

\* C8: OpenSearchBM25Retriever.run resolves all_terms_must_match, top_k,
\* fuzziness, scale_score and custom_query by presence: a call-time value
\* other than None is forwarded as given, falsy ones included; None falls
\* back to the configured default.
C8_BM25ResolvesByPresence ==
    (RunCalledStore /\ Cls = OpenSearchBM25Retriever) =>
        /\ Forwarded.all_terms_must_match =
               IF Given("all_terms_must_match") # None
               THEN Given("all_terms_must_match") ELSE Self["_all_terms_must_match"]
        /\ Forwarded.top_k =
               IF Given("top_k") # None THEN Given("top_k") ELSE Self["_top_k"]
        /\ Forwarded.fuzziness =
               IF Given("fuzziness") # None THEN Given("fuzziness") ELSE Self["_fuzziness"]
        /\ Forwarded.scale_score =
               IF Given("scale_score") # None THEN Given("scale_score") ELSE Self["_scale_score"]
        /\ Forwarded.custom_query =
               IF Given("custom_query") # None
               THEN Given("custom_query") ELSE Self["_custom_query"]

\* C8 witness: configured all_terms_must_match=True, run with
\* all_terms_must_match=False: the store receives False.
C8_Witness ==
    /\ RunCalledStore
    /\ Cls = OpenSearchBM25Retriever
    /\ Self["_all_terms_must_match"] = Some(TRUE)
    /\ Given("all_terms_must_match") = Some(FALSE)
    /\ Forwarded.all_terms_must_match = Some(FALSE)

\* C9 as stated: in each of the three Qdrant retrievers, run called with
\* scale_score=False on a retriever whose scale_score default is True
\* forwards scale_score=True to the store. (The hybrid retriever cannot be
\* given a scale_score default; the statement is read for it as for a
\* retriever whose default is not False.)
C9_AllThreeForwardTrue ==
    ( /\ op.kind = "run"
      /\ Cls \in QdrantClasses
      /\ Given("scale_score") = Some(FALSE)
      /\ Arg(Self, "_scale_score", Some(TRUE)) = Some(TRUE) ) =>
        /\ op.calls # <<>>
        /\ "scale_score" \in DOMAIN Forwarded
        /\ Forwarded.scale_score = Some(TRUE)

\* C9 amended: in the dense and the sparse retriever, run called with
\* scale_score=False on a retriever configured with scale_score=True forwards
\* scale_score=True; the hybrid retriever has no scale_score: passing one to
\* run raises TypeError and the store is not called.
C9_DenseSparseForwardTrue ==
    op.kind = "run" =>
        /\ ( /\ Cls \in { QdrantEmbeddingRetriever, QdrantSparseEmbeddingRetriever }
             /\ Given("scale_score") = Some(FALSE)
             /\ Self["_scale_score"] = Some(TRUE) ) =>
               (op.calls # <<>> /\ Forwarded.scale_score = Some(TRUE))
        /\ (Cls = QdrantHybridRetriever /\ "scale_score" \in DOMAIN op.kwargs) =>
               (op.raised = Some("TypeError") /\ op.calls = <<>>)
        /\ (Cls = QdrantHybridRetriever /\ op.calls # <<>>) =>
               "scale_score" \notin DOMAIN Forwarded

\* C9 witness: dense retriever configured with scale_score=True, run with
\* scale_score=False, the store receives True.
C9_Witness ==
    /\ RunCalledStore
    /\ Cls = QdrantEmbeddingRetriever
    /\ Self["_scale_score"] = Some(TRUE)
    /\ Given("scale_score") = Some(FALSE)
    /\ Forwarded.scale_score = Some(TRUE)

\* C10: in the three Qdrant retrievers a falsy call-time override (top_k=0,
\* return_embedding=False, score_threshold=0.0, scale_score=False where the
\* parameter exists) forwards what passing None forwards: the configured
\* default, whatever it is.
C10_QdrantFalsyOverrideIsDefault ==
    (RunCalledStore /\ Cls \in QdrantClasses) =>
        /\ Given("top_k") \in { None, Some(0) } => Forwarded.top_k = Self["_top_k"]
        /\ Given("return_embedding") \in { None, Some(FALSE) } =>
               Forwarded.return_embedding = Self["_return_embedding"]
        /\ Given("score_threshold") \in { None, Some(0) } =>
               Forwarded.score_threshold = Self["_score_threshold"]
        /\ "scale_score" \in DOMAIN Forwarded =>
               (Given("scale_score") \in { None, Some(FALSE) } =>
                    Forwarded.scale_score = Self["_scale_score"])

\* C10 witness: hybrid retriever configured with score_threshold=1 (1.0), run
\* with score_threshold=0 (0.0): the store receives the configured 1.
C10_Witness ==
    /\ RunCalledStore
    /\ Cls = QdrantHybridRetriever
    /\ Self["_score_threshold"] = Some(1)
    /\ Given("score_threshold") = Some(0)
    /\ Forwarded.score_threshold = Some(1)

\* C11: in all four retrievers a run call makes at most one call into the
\* store: exactly one, to the class's own query method, once the arguments
\* are bound, and none after a failure (BM25 with raise_on_failure=False
\* included); when the store's call returns, run returns {"documents": D} with
\* D the sequence the store returned, same documents in the same order.
C11_OneStoreCallDocumentsUnchanged ==
    op.kind = "run" =>
        /\ Len(op.calls) <= 1
        /\ op.raised # Some("TypeError") =>
               /\ Len(op.calls) = 1
               /\ op.calls[1].method =
                      CASE Cls = OpenSearchBM25Retriever -> "_bm25_retrieval"
                        [] Cls = QdrantEmbeddingRetriever -> "_query_by_embedding"
                        [] Cls = QdrantSparseEmbeddingRetriever -> "_query_by_sparse"
                        [] Cls = QdrantHybridRetriever -> "_query_hybrid"
        /\ (op.resp # None /\ ~Val(op.resp).raises) =>
               /\ op.raised = None
               /\ op.returned = Some([documents |-> Val(op.resp).docs])

\* C11 witness: the dense retriever's store returned the same document twice
\* and run returned both, after one call.
C11_Witness ==
    /\ op.kind = "run"
    /\ Cls = QdrantEmbeddingRetriever
    /\ Len(op.calls) = 1
    /\ op.resp # None
    /\ Val(op.resp).docs = << "d2", "d2" >>
    /\ op.returned = Some([documents |-> << "d2", "d2" >>])

\* C11 witness of the failure case: the BM25 retriever's store raised, the
\* exception was swallowed, and the store was called once.
C11_WitnessNoRetry ==
    /\ StoreRaised
    /\ Cls = OpenSearchBM25Retriever
    /\ op.raised = None
    /\ Len(op.calls) = 1

\* C12: run leaves the retriever's configuration as it is: every run call of
\* a retriever, whatever its overrides and filters, under either policy,
\* whether the store returned or raised (swallowed or propagated), and the
\* caller's going on after any call, leave every configured field at the
\* value it has had since construction; and a run without overrides forwards
\* exactly those values.
C12_RunLeavesConfiguration ==
    [][ (retriever # None /\ op'.kind \in { "run", "idle" }) =>
          /\ retriever' = retriever
          /\ ( /\ op'.kind = "run"
               /\ op'.calls # <<>>
               /\ op'.kwargs = QueryArgs(Val(retriever).cls) ) =>
                 \A k \in (DOMAIN op'.calls[1].kwargs) \ (DOMAIN op'.kwargs) :
                     op'.calls[1].kwargs[k] = Val(retriever).attrs["_" \o k] ]_vars

\* C12 witness: a sparse retriever configured with {"lang": "en"} under MERGE
\* was run with {"year": "2020"}, the store raised, and the retriever still
\* holds {"lang": "en"}.
C12_Witness ==
    /\ StoreRaised
    /\ Cls = QdrantSparseEmbeddingRetriever
    /\ Self["_filter_policy"] = Some(MERGE)
    /\ Given("filters") = Some([k \in {"year"} |-> "2020"])
    /\ Forwarded.filters = Some([k \in {"lang", "year"} |-> IF k = "lang" THEN "en" ELSE "2020"])
    /\ Self["_filters"] = Some([k \in {"lang"} |-> "en"])

\* C13: in OpenSearchBM25Retriever the filters forwarded to _bm25_retrieval
\* are never None, whatever the constructor's filters argument (None
\* included), the call-time filters, the policy and the resolver's result:
\* the constructor stores an empty mapping for None, and run forwards the
\* stored filters when the resolver returns None. The three Qdrant retrievers
\* store the constructor's filters as given, None included, and forward the
\* resolver's result as it is.
C13_BM25FiltersNeverNone ==
    /\ (op.kind = "__init__" /\ op.raised = None) =>
           IF op.cls = OpenSearchBM25Retriever
           THEN /\ op.attrs["_filters"] # None
                /\ Arg(op.kwargs, "filters", None) = None =>
                       op.attrs["_filters"] = Some(EmptyDict)
           ELSE op.attrs["_filters"] = Arg(op.kwargs, "filters", None)
    /\ RunCalledStore =>
           IF Cls = OpenSearchBM25Retriever
           THEN /\ Forwarded.filters # None
                /\ Forwarded.filters =
                       IF op.resolved = None THEN Self["_filters"] ELSE op.resolved
           ELSE Forwarded.filters = op.resolved

\* C13 witness: a BM25 retriever built without filters holds {}; it is run
\* with {"year": "2020"}, the resolver returns None and the store receives {}.
C13_Witness ==
    /\ RunCalledStore
    /\ Cls = OpenSearchBM25Retriever
    /\ Self["_filters"] = Some(EmptyDict)
    /\ Given("filters") = Some([k \in {"year"} |-> "2020"])
    /\ op.resolved = None
    /\ Forwarded.filters = Some(EmptyDict)

\* The Qdrant side of C13 happens: a dense retriever built without filters
\* forwards the None its resolver returned.
C13_QdrantForwardsNone ==
    /\ RunCalledStore
    /\ Cls = QdrantEmbeddingRetriever
    /\ Self["_filters"] = None
    /\ op.resolved = None
    /\ Forwarded.filters = None

\* C14: in all four retrievers, after from_dict(data) returns, the caller's
\* mapping differs from what was passed in two entries only:
\* init_parameters["document_store"] holds the deserialized store object and
\* init_parameters["filter_policy"] the FilterPolicy member, where the
\* serialized store and the string token were; the type entry and every other
\* init parameter are as they were. to_dict leaves the retriever unchanged
\* and emits filter_policy as the string token "replace" or "merge" of the
\* retriever's policy.
C14_FromDictRewritesTwoEntries ==
    /\ []( (op.kind = "from_dict" /\ op.raised = None) =>
             LET before == op.data_in.init_parameters
                 after == op.data.init_parameters
             IN  /\ DOMAIN op.data = DOMAIN op.data_in
                 /\ op.data.type = op.data_in.type
                 /\ DOMAIN after = DOMAIN before
                 /\ \A k \in (DOMAIN before) \ { "document_store", "filter_policy" } :
                        after[k] = before[k]
                 /\ DOMAIN Val(before["document_store"]) = { "type", "init_parameters" }
                 /\ after["document_store"] =
                        Some(Store_from_dict(ExpectedStore(Cls), Val(before["document_store"])))
                 /\ Val(after["document_store"]).cls = ExpectedStore(Cls)
                 /\ ~IsFilterPolicy(Val(before["filter_policy"]))
                 /\ IsFilterPolicy(Val(after["filter_policy"]))
                 /\ Val(after["filter_policy"]).v = Val(before["filter_policy"]).v )
    /\ []( op.kind = "to_dict" =>
             LET emitted == Val(op.data.init_parameters["filter_policy"])
             IN  /\ emitted \in { PyStr("replace"), PyStr("merge") }
                 /\ emitted.v = Val(Self["_filter_policy"]).v )
    /\ [][ op'.kind = "to_dict" => retriever' = retriever ]_vars

\* C14 witness: a hybrid retriever on the "docs" store under MERGE with
\* top_k=1 was serialized and read back: the mapping now holds the store
\* object and the MERGE member, and top_k=1 as before.
C14_Witness ==
    /\ op.kind = "from_dict"
    /\ op.raised = None
    /\ Cls = QdrantHybridRetriever
    /\ Val(op.data_in.init_parameters["document_store"]).type = QdrantDocumentStore
    /\ op.data.init_parameters["document_store"] =
           Some([ cls |-> QdrantDocumentStore, index |-> "docs" ])
    /\ op.data_in.init_parameters["filter_policy"] = Some(PyStr("merge"))
    /\ op.data.init_parameters["filter_policy"] = Some(MERGE)
    /\ op.data_in.init_parameters["top_k"] = Some(1)
    /\ op.data.init_parameters["top_k"] = Some(1)

====
